---- MODULE Spec2Model ----
(***************************************************************************)
(* Model of the Ecommerce-Backend order, cart and catalog controllers.     *)
(*                                                                         *)
(* Every HTTP request is a process held in a request slot.  A handler is   *)
(* split at its awaits: each store statement is one step.  The statements  *)
(* of a prisma.$transaction callback run under read-committed isolation:   *)
(* their writes stay private to the request until the commit step applies  *)
(* them at once, a row written by an open transaction is locked against    *)
(* other writers, and a failed statement discards every write.             *)
(***************************************************************************)
EXTENDS Integers, Sequences, FiniteSets, TLC

\* ------------------------------------------------------------------ bounds
MaxStock == 2
MaxQty == 2
MaxPrice == 2
MaxOrders == 2
MaxRequests == 2
MaxAdmin == 1

\* ------------------------------------------------------------------ domains
Users == {"u1", "u2"}
Products == {"p1", "p2"}
Req == {"r1", "r2"}
Role == [u1 |-> "USER", u2 |-> "ADMIN"]
OrderStatuses == {"PENDING", "PROCESSING", "SHIPPED", "DELIVERED", "CANCELLED"}
PaymentStatuses == {"PENDING", "PAID", "FAILED", "REFUNDED"}
PaymentMethods == {"CARD", "PAYPAL"}
\* The payment method each user sends with a checkout.
Pays == [u1 |-> "CARD", u2 |-> "PAYPAL"]
Addresses == {"10 Main Street"}
Categories == {"c1", "c2", "c3"}
\* Product.categoryId: p1 is of category c1, p2 of c2, no product of c3.
CategoryOf == [p \in Products |-> IF p = "p1" THEN "c1" ELSE "c2"]
\* The bearer tokens a request may carry: none, one that jwt.verify rejects,
\* and one signed token per user.
Tokens == {"none", "bad"} \cup Users

VARIABLES
    categories,  \* ids of the Category rows that exist
    products,    \* ids of the Product rows that exist
    stock,       \* Product.stock
    price,       \* Product.price
    carts,       \* number of Cart rows of each user (Cart.userId)
    cartItems,   \* CartItem rows: id -> [cart, productId, quantity]
    nextItemId,  \* id the next CartItem row gets
    orders,      \* Order rows with their OrderItems, by id (1..Len)
    pc,          \* where each request stands in its handler
    op,          \* the handler each request runs
    usr,         \* req.user.userId
    arg,         \* req.params and req.body
    snap,        \* the rows the handler has read (cart.items / order.items)
    tx,          \* the open transaction: statements done, rows to delete
    res,         \* HTTP status of the response (0: none yet)
    msg,         \* which error (or "ok") the response reports
    started,     \* requests started so far
    admin,       \* single-statement admin requests served so far
    stock0,      \* Product.stock at the start
    err,         \* the error handed to next() by each request
    body         \* the envelope the error handler sent for each request

db == <<categories, products, stock, price, carts, cartItems, nextItemId, orders>>
vars == <<categories, products, stock, price, carts, cartItems, nextItemId, orders,
          pc, op, usr, arg, snap, tx, res, msg, started, admin, stock0, err, body>>

\* ------------------------------------------------------------------ helpers
\* The (cart, product) pairs of the CartItem rows present at the start, in the
\* order the rows were inserted.
Layout == << <<"u1", "p1">>, <<"u2", "p2">>, <<"u1", "p2">>, <<"u2", "p1">> >>

NoArg ==
    [productId |-> "none", categoryId |-> "none", itemId |-> 0, orderId |-> 0,
     quantity |-> 0,
     status |-> "none", shippingAddress |-> "none", paymentMethod |-> "none",
     token |-> "none"]

NoTx == [i |-> 0, del |-> {}]

\* No error was handed to next(); no envelope was sent.
NoError == [isAppError |-> FALSE, code |-> <<>>, name |-> "none", statusCode |-> 0,
            message |-> ""]
NoBody == [status |-> "none", statusCode |-> 0, message |-> ""]

RECURSIVE SeqOf(_)
\* The ids of S in ascending order: the order the store returns rows in.
SeqOf(S) ==
    IF S = {} THEN <<>>
    ELSE LET m == CHOOSE x \in S : \A y \in S : x <= y
         IN <<m>> \o SeqOf(S \ {m})

RECURSIVE SumQty(_, _, _)
\* Sum of the quantities of the first n rows of s that name product p.
SumQty(s, n, p) ==
    IF n = 0 THEN 0
    ELSE SumQty(s, n - 1, p) + (IF s[n].productId = p THEN s[n].quantity ELSE 0)

ItemsOf(u) == {i \in DOMAIN cartItems : cartItems[i].cart = u}

\* cart.findUnique({ where: { userId }, include: { items: { include: { product } } } })
CartSnapshot(u) ==
    LET ids == SeqOf(ItemsOf(u))
    IN [k \in 1..Len(ids) |->
          [id |-> ids[k],
           productId |-> cartItems[ids[k]].productId,
           quantity |-> cartItems[ids[k]].quantity,
           price |-> price[cartItems[ids[k]].productId],
           stock |-> stock[cartItems[ids[k]].productId]]]

RECURSIVE Total(_, _)
\* cart.items.reduce((sum, item) => sum + item.product.price * item.quantity, 0)
Total(s, n) ==
    IF n = 0 THEN 0 ELSE Total(s, n - 1) + s[n].price * s[n].quantity

\* ------------------------------------------------------------------ the store's transactions
\* A request holds an open transaction with writes in it at these steps.
TxPcs == {"co_stock", "co_clear", "co_commit", "ca_stock", "ca_commit"}

InTx(r) == pc[r] \in TxPcs

\* Product rows the open transaction of r has updated, hence locked.
Touched(r) ==
    IF InTx(r) THEN {snap[r][k].productId : k \in 1..tx[r].i} ELSE {}

\* Product p is row-locked by the open transaction of a request other than r.
ProductLocked(p, r) == \E r2 \in Req \ {r} : p \in Touched(r2)

\* CartItem row i is deleted, not yet committed, by a request other than r.
ItemLocked(i, r) == \E r2 \in Req \ {r} : InTx(r2) /\ i \in tx[r2].del

\* Order row o is updated, not yet committed, by a request other than r.
OrderLocked(o, r) ==
    \E r2 \in Req \ {r} : pc[r2] \in {"ca_stock", "ca_commit"} /\ arg[r2].orderId = o

\* The product row the next stock statement of r writes.
NextProduct(r) == snap[r][tx[r].i + 1].productId

Blocked(r) ==
    /\ pc[r] \in {"co_stock", "ca_stock"}
    /\ tx[r].i < Len(snap[r])
    /\ ProductLocked(NextProduct(r), r)

\* r and another request each wait for a row the other has locked.
Deadlocked(r) ==
    /\ Blocked(r)
    /\ \E r2 \in Req \ {r} :
          /\ Blocked(r2)
          /\ NextProduct(r) \in Touched(r2)
          /\ NextProduct(r2) \in Touched(r)

\* ------------------------------------------------------------------ initial state
Price0 == [p \in Products |-> IF p = "p1" THEN 1 ELSE MaxPrice]

\* An order as a checkout of user u with cart rows its (a sequence of
\* <<product, quantity>>) at the prices Price0 left it, moved since to status s.
PastOrder(u, its, s) ==
    LET rows == [k \in 1..Len(its) |->
                   [productId |-> its[k][1], quantity |-> its[k][2],
                    price |-> Price0[its[k][1]]]]
    IN [userId |-> u,
        total |-> Total(rows, Len(rows)),
        shippingAddress |-> "10 Main Street",
        paymentMethod |-> Pays[u],
        status |-> s,
        paymentStatus |-> "PENDING",
        items |-> rows]

\* The item lists of the orders present at the start.
PastItems ==
    {<< <<"p1", n>> >> : n \in 1..MaxQty}
        \cup {<< <<"p1", 1>>, <<"p2", n>> >> : n \in 1..MaxQty}
        \cup {<< <<"p2", n>>, <<"p1", 1>> >> : n \in 1..MaxQty}

\* The store holds both products with stock st, the carts of the users cs and
\* of Layout with quantities q, and the orders os; no request has arrived.
InitWith(st, q, cs, os) ==
    /\ categories = Categories
    /\ products = Products
    /\ stock = st
    /\ stock0 = st
    /\ price = Price0
    /\ cartItems = [i \in {j \in 1..Len(Layout) : q[j] > 0} |->
                      [cart |-> Layout[i][1], productId |-> Layout[i][2],
                       quantity |-> q[i]]]
    /\ carts = [u \in Users |->
                  IF u \in cs \/ \E j \in 1..Len(Layout) : q[j] > 0 /\ Layout[j][1] = u
                  THEN 1 ELSE 0]
    /\ nextItemId = Len(Layout) + 1
    /\ orders = os
    /\ pc = [r \in Req |-> "idle"]
    /\ op = [r \in Req |-> "none"]
    /\ usr = [r \in Req |-> "none"]
    /\ arg = [r \in Req |-> NoArg]
    /\ snap = [r \in Req |-> <<>>]
    /\ tx = [r \in Req |-> NoTx]
    /\ res = [r \in Req |-> 0]
    /\ msg = [r \in Req |-> "none"]
    /\ started = 0
    /\ admin = 0
    /\ err = [r \in Req |-> NoError]
    /\ body = [r \in Req |-> NoBody]

\* Carts of every shape, no order yet.
InitCarts ==
    \E st \in [Products -> 0..MaxStock], q \in [1..Len(Layout) -> 0..MaxQty],
       cs \in SUBSET Users :
        InitWith(st, q, cs, <<>>)

\* An open order of u1 whose items name the products in the order opposite to
\* the rows of u1's cart.
OpenOrder == PastOrder("u1", << <<"p2", 1>>, <<"p1", 1>> >>, "PENDING")

\* Carts of one unit per row that fit the stock, and no order or one open order.
InitTx ==
    \E q \in [1..Len(Layout) -> 0..1], os \in {<<>>, <<OpenOrder>>} :
        InitWith([p \in Products |-> MaxStock], q, {}, os)

\* Both carts hold one unit of both products, and no order or one open order.
Init ==
    \E os \in {<<>>, <<OpenOrder>>} :
        InitWith([p \in Products |-> MaxStock], [j \in 1..Len(Layout) |-> 1], {}, os)

\* Carts whose every row fits the stock of its product, no order yet.
InitFits ==
    \E st \in [Products -> 1..MaxStock], q \in [1..Len(Layout) -> 0..MaxQty] :
        /\ \A j \in 1..Len(Layout) : q[j] <= st[Layout[j][2]]
        /\ InitWith(st, q, {}, <<>>)

\* One order of any owner, item list and status, alone or followed by an order
\* of u2 in process; the carts are empty.
InitOrders ==
    \E n \in 0..MaxStock, u \in Users, its \in PastItems, s \in OrderStatuses,
       more \in {<<>>, <<PastOrder("u2", << <<"p2", 1>> >>, "PROCESSING")>>} :
        InitWith([p \in Products |-> n], [j \in 1..Len(Layout) |-> 0], Users,
                 <<PastOrder(u, its, s)>> \o more)

\* ------------------------------------------------------------------ requests
Free(r) == pc[r] \in {"idle", "done"}

\* A request arrives: express hands it to its handler.
Begin(r, o, u, a, first) ==
    /\ Free(r)
    /\ started < MaxRequests
    /\ started' = started + 1
    /\ pc' = [pc EXCEPT ![r] = first]
    /\ op' = [op EXCEPT ![r] = o]
    /\ usr' = [usr EXCEPT ![r] = u]
    /\ arg' = [arg EXCEPT ![r] = a]
    /\ snap' = [snap EXCEPT ![r] = <<>>]
    /\ tx' = [tx EXCEPT ![r] = NoTx]
    /\ res' = [res EXCEPT ![r] = 0]
    /\ msg' = [msg EXCEPT ![r] = "none"]
    /\ UNCHANGED <<db, admin, stock0, err, body>>

\* The handler of r ends: res.status(code).json(...), or next(error) and the
\* error handler's response.
Respond(r, code, m) ==
    /\ pc' = [pc EXCEPT ![r] = "done"]
    /\ res' = [res EXCEPT ![r] = code]
    /\ msg' = [msg EXCEPT ![r] = m]
    /\ UNCHANGED <<op, usr, arg, snap, tx, started, admin, stock0, err, body>>

\* The handler of r goes on to its next statement.
Goto(r, next) ==
    /\ pc' = [pc EXCEPT ![r] = next]
    /\ UNCHANGED <<op, usr, arg, res, msg, started, admin, stock0, err, body>>

\* Mutant of Rollback: the statements run outside a transaction, so the
\* writes issued before the failing one stay.
RollbackPartial(r, code, m) ==
    /\ Respond(r, code, m)
    /\ IF op[r] = "createOrder"
       THEN /\ orders' = Append(orders,
                  [userId |-> usr[r], total |-> Total(snap[r], Len(snap[r])),
                   shippingAddress |-> arg[r].shippingAddress,
                   paymentMethod |-> arg[r].paymentMethod,
                   status |-> "PENDING", paymentStatus |-> "PENDING",
                   items |-> <<>>])
            /\ stock' = [p \in Products |-> stock[p] - SumQty(snap[r], tx[r].i, p)]
       ELSE /\ orders' = [orders EXCEPT ![arg[r].orderId].status = "CANCELLED"]
            /\ stock' = [p \in Products |-> stock[p] + SumQty(snap[r], tx[r].i, p)]
    /\ UNCHANGED <<categories, products, price, carts, cartItems, nextItemId>>

\* A statement of the transaction of r failed: prisma rolls the transaction
\* back, the handler's catch hands the error to next().
Rollback(r, code, m) ==
    /\ Respond(r, code, m)
    /\ UNCHANGED db

\* Postgres ends a lock cycle by failing one of the waiting transactions.
TxDeadlock(r) ==
    /\ Deadlocked(r)
    /\ Rollback(r, 500, "DatabaseError")

\* ------------------------------------------------------------------ createOrder
\* Mutant of NewOrder: every order item is created with quantity 1.
NewOrderOneEach(r) ==
    [userId |-> usr[r],
     total |-> Total(snap[r], Len(snap[r])),
     shippingAddress |-> arg[r].shippingAddress,
     paymentMethod |-> arg[r].paymentMethod,
     status |-> "PENDING",
     paymentStatus |-> "PENDING",
     items |-> [k \in 1..Len(snap[r]) |->
                  [productId |-> snap[r][k].productId,
                   quantity |-> 1,
                   price |-> snap[r][k].price]]]

\* Mutant of NewOrder: the total is computed from the prices the products have
\* when the order is written, the items from the prices read with the cart.
NewOrderLiveTotal(r) ==
    [userId |-> usr[r],
     total |-> Total([k \in 1..Len(snap[r]) |->
                        [snap[r][k] EXCEPT !.price = price[snap[r][k].productId]]],
                     Len(snap[r])),
     shippingAddress |-> arg[r].shippingAddress,
     paymentMethod |-> arg[r].paymentMethod,
     status |-> "PENDING",
     paymentStatus |-> "PENDING",
     items |-> [k \in 1..Len(snap[r]) |->
                  [productId |-> snap[r][k].productId,
                   quantity |-> snap[r][k].quantity,
                   price |-> snap[r][k].price]]]

\* tx.order.create({ data: { userId, total, ..., items: { create: [...] } } })
NewOrder(r) ==
    [userId |-> usr[r],
     total |-> Total(snap[r], Len(snap[r])),
     shippingAddress |-> arg[r].shippingAddress,
     paymentMethod |-> arg[r].paymentMethod,
     status |-> "PENDING",
     paymentStatus |-> "PENDING",
     items |-> [k \in 1..Len(snap[r]) |->
                  [productId |-> snap[r][k].productId,
                   quantity |-> snap[r][k].quantity,
                   price |-> snap[r][k].price]]]

\* Mutant of Decremented: decrement: 1 in place of decrement: item.quantity.
DecrementedByOne(st, s) ==
    [p \in Products |-> st[p] - Cardinality({k \in 1..Len(s) : s[k].productId = p})]

\* stock: { decrement: item.quantity } for every row of s
Decremented(st, s) ==
    [p \in Products |-> st[p] - SumQty(s, Len(s), p)]

\* Mutant of Incremented: increment: 1 in place of increment: item.quantity.
IncrementedByOne(st, s) ==
    [p \in Products |-> st[p] + Cardinality({k \in 1..Len(s) : s[k].productId = p})]

\* stock: { increment: item.quantity } for every row of s
Incremented(st, s) ==
    [p \in Products |-> st[p] + SumQty(s, Len(s), p)]

StartCheckout(r) ==
    /\ Len(orders) + Cardinality({x \in Req : op[x] = "createOrder" /\ ~Free(x)}) < MaxOrders
    /\ \E u \in Users, ad \in Addresses :
          Begin(r, "createOrder", u,
                [NoArg EXCEPT !.paymentMethod = Pays[u], !.shippingAddress = ad], "co_find")

\* Mutant of CheckoutFind: only a missing cart is rejected, not a cart without items.
CheckoutFindCartOnly(r) ==
    /\ pc[r] = "co_find"
    /\ LET s == CartSnapshot(usr[r])
       IN IF carts[usr[r]] = 0
          THEN Respond(r, 400, "CartEmpty") /\ UNCHANGED db
          ELSE IF \E k \in 1..Len(s) : s[k].stock < s[k].quantity
          THEN Respond(r, 400, "InsufficientStock") /\ UNCHANGED db
          ELSE /\ Goto(r, "co_create")
               /\ snap' = [snap EXCEPT ![r] = s]
               /\ UNCHANGED <<db, tx>>

\* Mutant of CheckoutFind: the stock of the first item only is validated.
CheckoutFindFirstItem(r) ==
    /\ pc[r] = "co_find"
    /\ LET s == CartSnapshot(usr[r])
       IN IF carts[usr[r]] = 0 \/ Len(s) = 0
          THEN Respond(r, 400, "CartEmpty") /\ UNCHANGED db
          ELSE IF s[1].stock < s[1].quantity
          THEN Respond(r, 400, "InsufficientStock") /\ UNCHANGED db
          ELSE /\ Goto(r, "co_create")
               /\ snap' = [snap EXCEPT ![r] = s]
               /\ UNCHANGED <<db, tx>>

\* STEP 1-3: read the cart, reject an empty cart, validate stock of all items.
CheckoutFind(r) ==
    /\ pc[r] = "co_find"
    /\ LET s == CartSnapshot(usr[r])
       IN IF carts[usr[r]] = 0 \/ Len(s) = 0
          THEN Respond(r, 400, "CartEmpty") /\ UNCHANGED db
          ELSE IF \E k \in 1..Len(s) : s[k].stock < s[k].quantity
          THEN Respond(r, 400, "InsufficientStock") /\ UNCHANGED db
          ELSE /\ Goto(r, "co_create")
               /\ snap' = [snap EXCEPT ![r] = s]
               /\ UNCHANGED <<db, tx>>

\* STEP 4, first statement of the transaction: insert the order and its items.
CheckoutCreate(r) ==
    /\ pc[r] = "co_create"
    /\ IF \A k \in 1..Len(snap[r]) : snap[r][k].productId \in products
       THEN Goto(r, "co_stock") /\ UNCHANGED <<db, snap, tx>>
       ELSE Rollback(r, 400, "InvalidReference")

\* tx.product.update({ where: { id }, data: { stock: { decrement } } }), one item.
CheckoutStock(r) ==
    /\ pc[r] = "co_stock"
    /\ tx[r].i < Len(snap[r])
    /\ ~ProductLocked(NextProduct(r), r)
    /\ IF NextProduct(r) \in products
       THEN /\ Goto(r, IF tx[r].i + 1 = Len(snap[r]) THEN "co_clear" ELSE "co_stock")
            /\ tx' = [tx EXCEPT ![r].i = @ + 1]
            /\ UNCHANGED <<db, snap>>
       ELSE Rollback(r, 404, "RecordNotFound")

\* tx.cartItem.deleteMany({ where: { cartId: cart.id } })
CheckoutClear(r) ==
    /\ pc[r] = "co_clear"
    /\ \A i \in ItemsOf(usr[r]) : ~ItemLocked(i, r)
    /\ Goto(r, "co_commit")
    /\ tx' = [tx EXCEPT ![r].del = ItemsOf(usr[r])]
    /\ UNCHANGED <<db, snap>>

\* Mutant of CheckoutCommit: the stock is written as the stock read minus the
\* quantity (read, then overwrite) in place of a decrement.
CheckoutCommitOverwrite(r) ==
    /\ pc[r] = "co_commit"
    /\ orders' = Append(orders, NewOrder(r))
    /\ stock' = [p \in Products |->
                   IF \E k \in 1..Len(snap[r]) : snap[r][k].productId = p
                   THEN LET k == CHOOSE j \in 1..Len(snap[r]) : snap[r][j].productId = p
                        IN snap[r][k].stock - SumQty(snap[r], Len(snap[r]), p)
                   ELSE stock[p]]
    /\ cartItems' = [i \in DOMAIN cartItems \ tx[r].del |-> cartItems[i]]
    /\ Respond(r, 201, "ok")
    /\ UNCHANGED <<categories, products, price, carts, nextItemId>>

\* The callback returned: the transaction commits and the order is sent.
CheckoutCommit(r) ==
    /\ pc[r] = "co_commit"
    /\ orders' = Append(orders, NewOrder(r))
    /\ stock' = Decremented(stock, snap[r])
    /\ cartItems' = [i \in DOMAIN cartItems \ tx[r].del |-> cartItems[i]]
    /\ Respond(r, 201, "ok")
    /\ UNCHANGED <<categories, products, price, carts, nextItemId>>

Checkout(r) ==
    \/ StartCheckout(r)
    \/ CheckoutFind(r)
    \/ CheckoutCreate(r)
    \/ CheckoutStock(r)
    \/ CheckoutClear(r)
    \/ CheckoutCommit(r)

\* The order ids a request may name: those of the orders, and one of no order.
OrderIds == 1..(IF Len(orders) < MaxOrders THEN Len(orders) + 1 ELSE MaxOrders)

\* The cart item ids a request may name: those of the rows, and one of no row.
ItemIds == DOMAIN cartItems \cup {nextItemId}

\* ------------------------------------------------------------------ cancelOrder
StartCancel(r) ==
    \E u \in Users, o \in OrderIds :
        Begin(r, "cancelOrder", u, [NoArg EXCEPT !.orderId = o], "ca_find")

\* Mutant of CancelFind: the SHIPPED / DELIVERED rule is left out.
CancelFindAnyOpenStatus(r) ==
    /\ pc[r] = "ca_find"
    /\ LET o == arg[r].orderId
       IN IF o \notin 1..Len(orders)
          THEN Respond(r, 404, "NotFound") /\ UNCHANGED db
          ELSE IF orders[o].userId # usr[r]
          THEN Respond(r, 400, "NotOwner") /\ UNCHANGED db
          ELSE IF orders[o].status = "CANCELLED"
          THEN Respond(r, 400, "AlreadyCancelled") /\ UNCHANGED db
          ELSE /\ Goto(r, "ca_status")
               /\ snap' = [snap EXCEPT ![r] = orders[o].items]
               /\ UNCHANGED <<db, tx>>

\* order.findUnique({ where: { id }, include: { items: true } }) and the checks
\* that follow it: existence, ownership, status.
CancelFind(r) ==
    /\ pc[r] = "ca_find"
    /\ LET o == arg[r].orderId
       IN IF o \notin 1..Len(orders)
          THEN Respond(r, 404, "NotFound") /\ UNCHANGED db
          ELSE IF orders[o].userId # usr[r]
          THEN Respond(r, 400, "NotOwner") /\ UNCHANGED db
          ELSE IF orders[o].status \in {"SHIPPED", "DELIVERED"}
          THEN Respond(r, 400, "AlreadyShipped") /\ UNCHANGED db
          ELSE IF orders[o].status = "CANCELLED"
          THEN Respond(r, 400, "AlreadyCancelled") /\ UNCHANGED db
          ELSE /\ Goto(r, "ca_status")
               /\ snap' = [snap EXCEPT ![r] = orders[o].items]
               /\ UNCHANGED <<db, tx>>

\* First statement of the transaction: tx.order.update({ data: { status: 'CANCELLED' } })
CancelStatus(r) ==
    /\ pc[r] = "ca_status"
    /\ ~OrderLocked(arg[r].orderId, r)
    /\ Goto(r, "ca_stock")
    /\ UNCHANGED <<db, snap, tx>>

\* tx.product.update({ where: { id }, data: { stock: { increment } } }), one item.
CancelStock(r) ==
    /\ pc[r] = "ca_stock"
    /\ tx[r].i < Len(snap[r])
    /\ ~ProductLocked(NextProduct(r), r)
    /\ IF NextProduct(r) \in products
       THEN /\ Goto(r, IF tx[r].i + 1 = Len(snap[r]) THEN "ca_commit" ELSE "ca_stock")
            /\ tx' = [tx EXCEPT ![r].i = @ + 1]
            /\ UNCHANGED <<db, snap>>
       ELSE Rollback(r, 404, "RecordNotFound")

\* Mutant of CancelCommit: the status is written, the stock is not restored.
CancelCommitStatusOnly(r) ==
    /\ pc[r] = "ca_commit"
    /\ orders' = [orders EXCEPT ![arg[r].orderId].status = "CANCELLED"]
    /\ Respond(r, 200, "ok")
    /\ UNCHANGED <<categories, products, stock, price, carts, cartItems, nextItemId>>

\* The callback returned: the transaction commits and the order is sent.
CancelCommit(r) ==
    /\ pc[r] = "ca_commit"
    /\ orders' = [orders EXCEPT ![arg[r].orderId].status = "CANCELLED"]
    /\ stock' = Incremented(stock, snap[r])
    /\ Respond(r, 200, "ok")
    /\ UNCHANGED <<categories, products, price, carts, cartItems, nextItemId>>

Cancel(r) ==
    \/ StartCancel(r)
    \/ CancelFind(r)
    \/ CancelStatus(r)
    \/ CancelStock(r)
    \/ CancelCommit(r)

\* ------------------------------------------------------------------ updateOrderStatus, updatePaymentStatus
StartUpdateOrderStatus(r) ==
    \E o \in OrderIds, st \in OrderStatuses :
        Begin(r, "updateOrderStatus", "u2",
              [NoArg EXCEPT !.orderId = o, !.status = st], "us_find")

\* order.findUnique({ where: { id } })
UpdateOrderStatusFind(r) ==
    /\ pc[r] = "us_find"
    /\ IF arg[r].orderId \in 1..Len(orders)
       THEN Goto(r, "us_update") /\ UNCHANGED <<snap, tx>>
       ELSE Respond(r, 404, "NotFound")
    /\ UNCHANGED db

\* Mutant of UpdateOrderStatusWrite: a write of CANCELLED also returns the
\* order's quantities to stock.
UpdateOrderStatusWriteRestoring(r) ==
    /\ pc[r] = "us_update"
    /\ ~OrderLocked(arg[r].orderId, r)
    /\ orders' = [orders EXCEPT ![arg[r].orderId].status = arg[r].status]
    /\ stock' = IF arg[r].status = "CANCELLED"
                THEN [p \in Products |->
                        stock[p] + SumQty(orders[arg[r].orderId].items,
                                            Len(orders[arg[r].orderId].items), p)]
                ELSE stock
    /\ Respond(r, 200, "ok")
    /\ UNCHANGED <<categories, products, price, carts, cartItems, nextItemId>>

\* order.update({ where: { id }, data: { status } })
UpdateOrderStatusWrite(r) ==
    /\ pc[r] = "us_update"
    /\ ~OrderLocked(arg[r].orderId, r)
    /\ orders' = [orders EXCEPT ![arg[r].orderId].status = arg[r].status]
    /\ Respond(r, 200, "ok")
    /\ UNCHANGED <<categories, products, stock, price, carts, cartItems, nextItemId>>

UpdateOrderStatus(r) ==
    \/ StartUpdateOrderStatus(r)
    \/ UpdateOrderStatusFind(r)
    \/ UpdateOrderStatusWrite(r)

StartUpdatePaymentStatus(r) ==
    \E o \in OrderIds, st \in PaymentStatuses :
        Begin(r, "updatePaymentStatus", "u2",
              [NoArg EXCEPT !.orderId = o, !.status = st], "up_find")

\* order.findUnique({ where: { id } })
UpdatePaymentStatusFind(r) ==
    /\ pc[r] = "up_find"
    /\ IF arg[r].orderId \in 1..Len(orders)
       THEN Goto(r, "up_update") /\ UNCHANGED <<snap, tx>>
       ELSE Respond(r, 404, "NotFound")
    /\ UNCHANGED db

\* Mutant of UpdatePaymentStatusWrite: the value lands in paymentMethod.
UpdatePaymentStatusWriteMethod(r) ==
    /\ pc[r] = "up_update"
    /\ ~OrderLocked(arg[r].orderId, r)
    /\ orders' = [orders EXCEPT ![arg[r].orderId].paymentMethod = arg[r].status]
    /\ Respond(r, 200, "ok")
    /\ UNCHANGED <<categories, products, stock, price, carts, cartItems, nextItemId>>

\* order.update({ where: { id }, data: { paymentStatus } })
UpdatePaymentStatusWrite(r) ==
    /\ pc[r] = "up_update"
    /\ ~OrderLocked(arg[r].orderId, r)
    /\ orders' = [orders EXCEPT ![arg[r].orderId].paymentStatus = arg[r].status]
    /\ Respond(r, 200, "ok")
    /\ UNCHANGED <<categories, products, stock, price, carts, cartItems, nextItemId>>

UpdatePaymentStatus(r) ==
    \/ StartUpdatePaymentStatus(r)
    \/ UpdatePaymentStatusFind(r)
    \/ UpdatePaymentStatusWrite(r)

\* ------------------------------------------------------------------ products (one statement each)
\* An admin request made of a single store statement: it runs between two
\* steps of the requests in flight.
AdminStep ==
    /\ admin < MaxAdmin
    /\ admin' = admin + 1
    /\ UNCHANGED <<pc, op, usr, arg, snap, tx, res, msg, started, stock0, err, body>>

\* Rows that name product p: CartItem.productId, OrderItem.productId, and the
\* order items an open transaction has inserted.
ProductReferenced(p) ==
    \/ \E i \in DOMAIN cartItems : cartItems[i].productId = p
    \/ \E o \in 1..Len(orders) : \E k \in 1..Len(orders[o].items) :
          orders[o].items[k].productId = p
    \/ \E r \in Req : /\ pc[r] \in {"co_stock", "co_clear", "co_commit"}
                     /\ \E k \in 1..Len(snap[r]) : snap[r][k].productId = p

\* Mutant of UpdateProduct: the new price is written to the order items too.
UpdateProductRepricing(p, np, ns) ==
    /\ AdminStep
    /\ ~ProductLocked(p, "admin")
    /\ IF p \in products
       THEN /\ price' = [price EXCEPT ![p] = IF np # 0 THEN np ELSE @]
            /\ stock' = [stock EXCEPT ![p] = IF ns # -1 THEN ns ELSE @]
            /\ orders' = [o \in 1..Len(orders) |->
                            [orders[o] EXCEPT !.items =
                                [k \in 1..Len(orders[o].items) |->
                                   IF orders[o].items[k].productId = p /\ np # 0
                                   THEN [orders[o].items[k] EXCEPT !.price = np]
                                   ELSE orders[o].items[k]]]]
       ELSE UNCHANGED <<price, stock, orders>>
    /\ UNCHANGED <<categories, products, carts, cartItems, nextItemId>>

\* product.update({ where: { id }, data: { price?, stock?, ... } }); np = 0 and
\* ns = -1 stand for a field the body leaves out.
UpdateProduct(p, np, ns) ==
    /\ AdminStep
    /\ ~ProductLocked(p, "admin")
    /\ IF p \in products
       THEN /\ price' = [price EXCEPT ![p] = IF np # 0 THEN np ELSE @]
            /\ stock' = [stock EXCEPT ![p] = IF ns # -1 THEN ns ELSE @]
       ELSE UNCHANGED <<price, stock>>
    /\ UNCHANGED <<categories, products, carts, cartItems, nextItemId, orders>>

\* product.delete({ where: { id } }); the store refuses while a row names p.
DeleteProduct(p) ==
    /\ AdminStep
    /\ ~ProductLocked(p, "admin")
    /\ products' = IF ProductReferenced(p) THEN products ELSE products \ {p}
    /\ UNCHANGED <<categories, stock, price, carts, cartItems, nextItemId, orders>>

Catalog ==
    \/ \E p \in Products, np \in 0..MaxPrice, ns \in -1..MaxStock : UpdateProduct(p, np, ns)
    \/ \E p \in Products : DeleteProduct(p)

\* ------------------------------------------------------------------ removeFromCart
StartRemoveFromCart(r) ==
    \E u \in Users, i \in ItemIds :
        Begin(r, "removeFromCart", u, [NoArg EXCEPT !.itemId = i], "rm_find")

\* cartItem.findUnique({ where: { id: itemId }, include: { cart: true } })
RemoveFromCartFind(r) ==
    /\ pc[r] = "rm_find"
    /\ LET i == arg[r].itemId
       IN IF i \notin DOMAIN cartItems
          THEN Respond(r, 404, "NotFound")
          ELSE IF cartItems[i].cart # usr[r]
          THEN Respond(r, 400, "NotOwner")
          ELSE Goto(r, "rm_delete") /\ UNCHANGED <<snap, tx>>
    /\ UNCHANGED db

\* cartItem.delete({ where: { id: itemId } })
RemoveFromCartDelete(r) ==
    /\ pc[r] = "rm_delete"
    /\ ~ItemLocked(arg[r].itemId, r)
    /\ IF arg[r].itemId \in DOMAIN cartItems
       THEN /\ cartItems' = [i \in DOMAIN cartItems \ {arg[r].itemId} |-> cartItems[i]]
            /\ Respond(r, 200, "ok")
       ELSE /\ UNCHANGED cartItems
            /\ Respond(r, 404, "RecordNotFound")
    /\ UNCHANGED <<categories, products, stock, price, carts, nextItemId, orders>>

RemoveFromCart(r) ==
    \/ StartRemoveFromCart(r)
    \/ RemoveFromCartFind(r)
    \/ RemoveFromCartDelete(r)

\* ------------------------------------------------------------------ getCart
\* The store accepts a Cart row for u: Cart.userId is unique.
CartUserIdFree(u) == carts[u] = 0

\* cart.create({ data: { userId } }): the row is inserted, or the store refuses
\* it (P2002) and the error handler answers 400.
CreateCart(r, next, code) ==
    IF CartUserIdFree(usr[r])
    THEN /\ carts' = [carts EXCEPT ![usr[r]] = @ + 1]
         /\ IF next = "done"
            THEN Respond(r, code, "ok")
            ELSE Goto(r, next) /\ UNCHANGED <<snap, tx>>
         /\ UNCHANGED <<categories, products, stock, price, cartItems, nextItemId, orders>>
    ELSE Respond(r, 400, "UniqueViolation") /\ UNCHANGED db

StartGetCart(r) ==
    \E u \in Users : Begin(r, "getCart", u, NoArg, "gc_find")

\* Mutant of GetCartFind: a user without a cart is answered an empty cart and
\* no row is created.
GetCartFindNoCreate(r) ==
    /\ pc[r] = "gc_find"
    /\ Respond(r, 200, "ok")
    /\ UNCHANGED db

\* cart.findUnique({ where: { userId }, include: ... }); a cart found is returned.
GetCartFind(r) ==
    /\ pc[r] = "gc_find"
    /\ IF carts[usr[r]] > 0
       THEN Respond(r, 200, "ok")
       ELSE Goto(r, "gc_create") /\ UNCHANGED <<snap, tx>>
    /\ UNCHANGED db

\* if (!cart) cart = await prisma.cart.create(...), then the 200 response.
GetCartCreate(r) ==
    /\ pc[r] = "gc_create"
    /\ CreateCart(r, "done", 200)

GetCart(r) ==
    \/ StartGetCart(r)
    \/ GetCartFind(r)
    \/ GetCartCreate(r)

\* ------------------------------------------------------------------ addToCart
StartAddToCart(r) ==
    \E u \in Users, p \in Products, q \in 1..MaxQty :
        Begin(r, "addToCart", u, [NoArg EXCEPT !.productId = p, !.quantity = q],
              "ac_product")

\* 1. product.findUnique and the stock check of the requested quantity.
AddToCartProduct(r) ==
    /\ pc[r] = "ac_product"
    /\ LET p == arg[r].productId
       IN IF p \notin products
          THEN Respond(r, 404, "NotFound")
          ELSE IF stock[p] < arg[r].quantity
          THEN Respond(r, 400, "InsufficientStock")
          ELSE /\ Goto(r, "ac_cart")
               /\ snap' = [snap EXCEPT ![r] =
                             <<[id |-> 0, productId |-> p, quantity |-> arg[r].quantity,
                                price |-> price[p], stock |-> stock[p]]>>]
               /\ UNCHANGED tx
    /\ UNCHANGED db

\* 2. cart.findUnique({ where: { userId } })
AddToCartCart(r) ==
    /\ pc[r] = "ac_cart"
    /\ Goto(r, IF carts[usr[r]] > 0 THEN "ac_item" ELSE "ac_create")
    /\ UNCHANGED <<db, snap, tx>>

\* if (!cart) cart = await prisma.cart.create({ data: { userId } })
AddToCartCreate(r) ==
    /\ pc[r] = "ac_create"
    /\ CreateCart(r, "ac_item", 0)

\* The CartItem rows of user u that name product p.
RowsOf(u, p) ==
    {i \in DOMAIN cartItems : cartItems[i].cart = u /\ cartItems[i].productId = p}

\* Mutant of AddToCartItem: the merged quantity is not checked against the stock.
AddToCartItemNoRecheck(r) ==
    /\ pc[r] = "ac_item"
    /\ LET rows == RowsOf(usr[r], arg[r].productId)
           me == snap[r][1]
       IN IF rows = {}
          THEN Goto(r, "ac_insert") /\ UNCHANGED <<snap, tx>>
          ELSE \E i \in rows :
                  /\ Goto(r, "ac_update")
                  /\ snap' = [snap EXCEPT ![r] =
                                <<[me EXCEPT !.id = i,
                                      !.quantity = cartItems[i].quantity + arg[r].quantity]>>]
                  /\ UNCHANGED tx
    /\ UNCHANGED db

\* 3. cartItem.findFirst({ where: { cartId, productId } }) and the check of the
\* merged quantity against the stock read in step 1.
AddToCartItem(r) ==
    /\ pc[r] = "ac_item"
    /\ LET rows == RowsOf(usr[r], arg[r].productId)
           me == snap[r][1]
       IN IF rows = {}
          THEN Goto(r, "ac_insert") /\ UNCHANGED <<snap, tx>>
          ELSE \E i \in rows :
                  IF cartItems[i].quantity + arg[r].quantity > me.stock
                  THEN Respond(r, 400, "InsufficientStock")
                  ELSE /\ Goto(r, "ac_update")
                       /\ snap' = [snap EXCEPT ![r] =
                                     <<[me EXCEPT !.id = i,
                                           !.quantity = cartItems[i].quantity + arg[r].quantity]>>]
                       /\ UNCHANGED tx
    /\ UNCHANGED db

\* cartItem.update({ where: { id: existingCartItem.id }, data: { quantity: newQuantity } })
AddToCartUpdate(r) ==
    /\ pc[r] = "ac_update"
    /\ ~ItemLocked(snap[r][1].id, r)
    /\ IF snap[r][1].id \in DOMAIN cartItems
       THEN /\ cartItems' = [cartItems EXCEPT ![snap[r][1].id].quantity = snap[r][1].quantity]
            /\ Respond(r, 201, "ok")
       ELSE /\ UNCHANGED cartItems
            /\ Respond(r, 404, "RecordNotFound")
    /\ UNCHANGED <<categories, products, stock, price, carts, nextItemId, orders>>

\* cartItem.create({ data: { cartId, productId, quantity } })
AddToCartInsert(r) ==
    /\ pc[r] = "ac_insert"
    /\ IF arg[r].productId \in products
       THEN /\ cartItems' =
                 [i \in DOMAIN cartItems \cup {nextItemId} |->
                    IF i = nextItemId
                    THEN [cart |-> usr[r], productId |-> arg[r].productId,
                          quantity |-> arg[r].quantity]
                    ELSE cartItems[i]]
            /\ nextItemId' = nextItemId + 1
            /\ Respond(r, 201, "ok")
       ELSE /\ UNCHANGED <<cartItems, nextItemId>>
            /\ Respond(r, 400, "InvalidReference")
    /\ UNCHANGED <<categories, products, stock, price, carts, orders>>

AddToCart(r) ==
    \/ StartAddToCart(r)
    \/ AddToCartProduct(r)
    \/ AddToCartCart(r)
    \/ AddToCartCreate(r)
    \/ AddToCartItem(r)
    \/ AddToCartUpdate(r)
    \/ AddToCartInsert(r)

\* ------------------------------------------------------------------ updateCartItem
StartUpdateCartItem(r) ==
    \E u \in Users, i \in ItemIds, q \in 1..MaxQty :
        Begin(r, "updateCartItem", u, [NoArg EXCEPT !.itemId = i, !.quantity = q],
              "uc_find")

\* 1-2. cartItem.findUnique({ where: { id: itemId }, include: { cart, product } }),
\* the ownership check and the stock check.
UpdateCartItemFind(r) ==
    /\ pc[r] = "uc_find"
    /\ LET i == arg[r].itemId
       IN IF i \notin DOMAIN cartItems
          THEN Respond(r, 404, "NotFound")
          ELSE IF cartItems[i].cart # usr[r]
          THEN Respond(r, 400, "NotOwner")
          ELSE IF arg[r].quantity > stock[cartItems[i].productId]
          THEN Respond(r, 400, "InsufficientStock")
          ELSE Goto(r, "uc_update") /\ UNCHANGED <<snap, tx>>
    /\ UNCHANGED db

\* 3. cartItem.update({ where: { id: itemId }, data: { quantity } })
UpdateCartItemWrite(r) ==
    /\ pc[r] = "uc_update"
    /\ ~ItemLocked(arg[r].itemId, r)
    /\ IF arg[r].itemId \in DOMAIN cartItems
       THEN /\ cartItems' = [cartItems EXCEPT ![arg[r].itemId].quantity = arg[r].quantity]
            /\ Respond(r, 200, "ok")
       ELSE /\ UNCHANGED cartItems
            /\ Respond(r, 404, "RecordNotFound")
    /\ UNCHANGED <<categories, products, stock, price, carts, nextItemId, orders>>

UpdateCartItem(r) ==
    \/ StartUpdateCartItem(r)
    \/ UpdateCartItemFind(r)
    \/ UpdateCartItemWrite(r)

\* ------------------------------------------------------------------ clearCart
StartClearCart(r) ==
    \E u \in Users : Begin(r, "clearCart", u, NoArg, "cc_find")

\* 1. cart.findUnique({ where: { userId } })
ClearCartFind(r) ==
    /\ pc[r] = "cc_find"
    /\ IF carts[usr[r]] = 0
       THEN Respond(r, 404, "NotFound")
       ELSE Goto(r, "cc_delete") /\ UNCHANGED <<snap, tx>>
    /\ UNCHANGED db

\* Mutant of ClearCartDelete: the Cart row is deleted with its items.
ClearCartDeleteCartRow(r) ==
    /\ pc[r] = "cc_delete"
    /\ \A i \in ItemsOf(usr[r]) : ~ItemLocked(i, r)
    /\ cartItems' = [i \in DOMAIN cartItems \ ItemsOf(usr[r]) |-> cartItems[i]]
    /\ carts' = [carts EXCEPT ![usr[r]] = 0]
    /\ Respond(r, 200, "ok")
    /\ UNCHANGED <<categories, products, stock, price, nextItemId, orders>>

\* 2. cartItem.deleteMany({ where: { cartId: cart.id } })
ClearCartDelete(r) ==
    /\ pc[r] = "cc_delete"
    /\ \A i \in ItemsOf(usr[r]) : ~ItemLocked(i, r)
    /\ cartItems' = [i \in DOMAIN cartItems \ ItemsOf(usr[r]) |-> cartItems[i]]
    /\ Respond(r, 200, "ok")
    /\ UNCHANGED <<categories, products, stock, price, carts, nextItemId, orders>>

ClearCart(r) ==
    \/ StartClearCart(r)
    \/ ClearCartFind(r)
    \/ ClearCartDelete(r)

\* ------------------------------------------------------------------ deleteCategory
\* category._count.products: the Product rows of category c.
ProductsOf(c) == {p \in products : CategoryOf[p] = c}

StartDeleteCategory(r) ==
    \E c \in Categories :
        Begin(r, "deleteCategory", "u2", [NoArg EXCEPT !.categoryId = c], "dc_find")

\* category.findUnique({ where: { id }, include: { _count: { products } } })
\* and the two early returns.
DeleteCategoryFind(r) ==
    /\ pc[r] = "dc_find"
    /\ LET c == arg[r].categoryId
       IN IF c \notin categories
          THEN Respond(r, 404, "NotFound")
          ELSE IF Cardinality(ProductsOf(c)) > 0
          THEN Respond(r, 400, "HasProducts")
          ELSE Goto(r, "dc_delete") /\ UNCHANGED <<snap, tx>>
    /\ UNCHANGED db

\* category.delete({ where: { id } }); a failure is caught and answered 500.
DeleteCategoryDelete(r) ==
    /\ pc[r] = "dc_delete"
    /\ IF arg[r].categoryId \in categories
       THEN /\ categories' = categories \ {arg[r].categoryId}
            /\ Respond(r, 200, "ok")
       ELSE /\ UNCHANGED categories
            /\ Respond(r, 500, "Failed")
    /\ UNCHANGED <<products, stock, price, carts, cartItems, nextItemId, orders>>

DeleteCategory(r) ==
    \/ StartDeleteCategory(r)
    \/ DeleteCategoryFind(r)
    \/ DeleteCategoryDelete(r)

\* ------------------------------------------------------------------ routers
\* The cart router and the order router: for each route whether authorize('ADMIN')
\* stands before the controller, and the controller's first statement.
\* router.use(authenticate) stands before every route of both.
Route ==
    [getCart             |-> [admin |-> FALSE, first |-> "gc_find"],
     getCartSummary      |-> [admin |-> FALSE, first |-> "read"],
     addToCart           |-> [admin |-> FALSE, first |-> "ac_product"],
     updateCartItem      |-> [admin |-> FALSE, first |-> "uc_find"],
     removeFromCart      |-> [admin |-> FALSE, first |-> "rm_find"],
     clearCart           |-> [admin |-> FALSE, first |-> "cc_find"],
     getUserOrders       |-> [admin |-> FALSE, first |-> "read"],
     getOrderById        |-> [admin |-> FALSE, first |-> "read"],
     createOrder         |-> [admin |-> FALSE, first |-> "co_find"],
     cancelOrder         |-> [admin |-> FALSE, first |-> "ca_find"],
     getOrderStats       |-> [admin |-> TRUE,  first |-> "read"],
     getAllOrders        |-> [admin |-> TRUE,  first |-> "read"],
     updateOrderStatus   |-> [admin |-> TRUE,  first |-> "us_find"],
     updatePaymentStatus |-> [admin |-> TRUE,  first |-> "up_find"]]

\* A request arrives at a route with a bearer token and a body its schema accepts.
Arrive(r) ==
    \E o \in DOMAIN Route, t \in Tokens :
        Begin(r, o, "none",
              [NoArg EXCEPT !.token = t, !.productId = "p1", !.quantity = 1,
                            !.itemId = 1, !.orderId = 1,
                            !.status = IF o = "updatePaymentStatus" THEN "PAID" ELSE "SHIPPED",
                            !.shippingAddress = "10 Main Street",
                            !.paymentMethod = "CARD"],
              "authenticate")

\* authenticate: no token or a token jwt.verify rejects is answered 401;
\* otherwise req.user = decoded and next().
Authenticate(r) ==
    /\ pc[r] = "authenticate"
    /\ IF arg[r].token = "none"
       THEN Respond(r, 401, "NoToken")
       ELSE IF arg[r].token \notin Users
       THEN Respond(r, 401, "InvalidToken")
       ELSE /\ usr' = [usr EXCEPT ![r] = arg[r].token]
            /\ pc' = [pc EXCEPT ![r] =
                        IF Route[op[r]].admin THEN "authorize" ELSE Route[op[r]].first]
            /\ UNCHANGED <<op, arg, snap, tx, res, msg, started, admin, stock0, err, body>>
    /\ UNCHANGED db

\* Mutant of Authorize: any authenticated user passes.
AuthorizeAnyRole(r) ==
    /\ pc[r] = "authorize"
    /\ IF usr[r] = "none"
       THEN Respond(r, 401, "NotAuthenticated")
       ELSE Goto(r, Route[op[r]].first) /\ UNCHANGED <<snap, tx>>
    /\ UNCHANGED db

\* authorize('ADMIN'): 401 without req.user, 403 when the role is not ADMIN.
Authorize(r) ==
    /\ pc[r] = "authorize"
    /\ IF usr[r] = "none"
       THEN Respond(r, 401, "NotAuthenticated")
       ELSE IF Role[usr[r]] # "ADMIN"
       THEN Respond(r, 403, "Forbidden")
       ELSE Goto(r, Route[op[r]].first) /\ UNCHANGED <<snap, tx>>
    /\ UNCHANGED db

\* The controllers that only read: getCartSummary, getUserOrders, getAllOrders
\* and getOrderStats answer 200; getOrderById answers 404 for no order and 400
\* for another user's order unless the requester is an admin.
ReadOnly(r) ==
    /\ pc[r] = "read"
    /\ IF op[r] # "getOrderById"
       THEN Respond(r, 200, "ok")
       ELSE IF arg[r].orderId \notin 1..Len(orders)
       THEN Respond(r, 404, "NotFound")
       ELSE IF orders[arg[r].orderId].userId # usr[r] /\ Role[usr[r]] # "ADMIN"
       THEN Respond(r, 400, "NotOwner")
       ELSE Respond(r, 200, "ok")
    /\ UNCHANGED db

\* The statements of the controllers behind the two routers.
Controllers(r) ==
    \/ ReadOnly(r)
    \/ GetCartFind(r) \/ GetCartCreate(r)
    \/ AddToCartProduct(r) \/ AddToCartCart(r) \/ AddToCartCreate(r)
    \/ AddToCartItem(r) \/ AddToCartUpdate(r) \/ AddToCartInsert(r)
    \/ UpdateCartItemFind(r) \/ UpdateCartItemWrite(r)
    \/ RemoveFromCartFind(r) \/ RemoveFromCartDelete(r)
    \/ ClearCartFind(r) \/ ClearCartDelete(r)
    \/ CheckoutFind(r) \/ CheckoutCreate(r) \/ CheckoutStock(r)
    \/ CheckoutClear(r) \/ CheckoutCommit(r)
    \/ CancelFind(r) \/ CancelStatus(r) \/ CancelStock(r) \/ CancelCommit(r)
    \/ UpdateOrderStatusFind(r) \/ UpdateOrderStatusWrite(r)
    \/ UpdatePaymentStatusFind(r) \/ UpdatePaymentStatusWrite(r)

\* ------------------------------------------------------------------ errorHandler
\* err.code as its first character and the rest; <<>> is a code that is absent
\* (or empty), which `err.code &&` takes for false.
ErrorCodes ==
    {<<>>, <<"P", "2002">>, <<"P", "2003">>, <<"P", "2014">>, <<"P", "2025">>,
     <<"P", "2000">>, <<"P", "1001">>, <<"E", "CONNREFUSED">>}

ErrorNames == {"Error", "JsonWebTokenError", "TokenExpiredError"}

\* statusCode of the AppError classes, and of other errors (0: none).
AppStatusCodes == {400, 401, 403, 404, 500}
OtherStatusCodes == {0, 400, 413, 503}

\* The errors a handler or a middleware may hand to next(): instances of
\* AppError, and other errors with or without code, name, statusCode, message.
Errors ==
    [isAppError : {TRUE}, code : {<<>>}, name : {"Error"},
     statusCode : AppStatusCodes, message : {"failed"}]
      \cup [isAppError : {FALSE}, code : ErrorCodes, name : ErrorNames,
            statusCode : OtherStatusCodes, message : {"", "failed"}]

\* err.code && err.code.startsWith('P')
isPrismaError(e) == e.code # <<>> /\ Head(e.code) = "P"

\* Mutant of handlePrismaError: P2025 falls into the default case.
handlePrismaErrorNoP2025(e) ==
    CASE e.code = <<"P", "2002">> -> [statusCode |-> 400, message |-> "AlreadyExists"]
      [] e.code = <<"P", "2003">> -> [statusCode |-> 400, message |-> "InvalidReference"]
      [] e.code = <<"P", "2014">> -> [statusCode |-> 400, message |-> "RequiredRelation"]
      [] OTHER -> [statusCode |-> 500, message |-> "DatabaseError"]

\* switch (err.code): the AppError each store error code is turned into.
handlePrismaError(e) ==
    CASE e.code = <<"P", "2002">> -> [statusCode |-> 400, message |-> "AlreadyExists"]
      [] e.code = <<"P", "2025">> -> [statusCode |-> 404, message |-> "RecordNotFound"]
      [] e.code = <<"P", "2003">> -> [statusCode |-> 400, message |-> "InvalidReference"]
      [] e.code = <<"P", "2014">> -> [statusCode |-> 400, message |-> "RequiredRelation"]
      [] OTHER -> [statusCode |-> 500, message |-> "DatabaseError"]

\* new UnauthorizedError(...)
handleJWTError == [statusCode |-> 401, message |-> "InvalidToken"]
handleJWTExpiredError == [statusCode |-> 401, message |-> "TokenExpired"]

\* The response of errorHandler(err, req, res, next): res.status(...) and the
\* body handed to json().
errorHandler(e) ==
    LET error ==
          IF e.isAppError THEN [statusCode |-> e.statusCode, message |-> e.message]
          ELSE IF isPrismaError(e) THEN handlePrismaError(e)
          ELSE IF e.name = "JsonWebTokenError" THEN handleJWTError
          ELSE IF e.name = "TokenExpiredError" THEN handleJWTExpiredError
          ELSE [statusCode |-> IF e.statusCode # 0 THEN e.statusCode ELSE 500,
                message |-> IF e.message # "" THEN e.message ELSE "SomethingWentWrong"]
    IN [status |-> error.statusCode,
        body |-> [status |-> "error", statusCode |-> error.statusCode,
                  message |-> error.message]]

\* A handler or a middleware of request r calls next(e).
NextError(r) ==
    \E e \in Errors :
        /\ Free(r)
        /\ started < MaxRequests
        /\ started' = started + 1
        /\ pc' = [pc EXCEPT ![r] = "errorHandler"]
        /\ op' = [op EXCEPT ![r] = "next(err)"]
        /\ err' = [err EXCEPT ![r] = e]
        /\ res' = [res EXCEPT ![r] = 0]
        /\ msg' = [msg EXCEPT ![r] = "none"]
        /\ body' = [body EXCEPT ![r] = NoBody]
        /\ UNCHANGED <<db, usr, arg, snap, tx, admin, stock0>>

\* express runs the error handler, which answers.
ErrorHandled(r) ==
    /\ pc[r] = "errorHandler"
    /\ pc' = [pc EXCEPT ![r] = "done"]
    /\ res' = [res EXCEPT ![r] = errorHandler(err[r]).status]
    /\ body' = [body EXCEPT ![r] = errorHandler(err[r]).body]
    /\ msg' = [msg EXCEPT ![r] = errorHandler(err[r]).body.message]
    /\ UNCHANGED <<db, op, usr, arg, snap, tx, started, admin, stock0, err>>

\* ------------------------------------------------------------------ specifications
\* Errors handed to the error handler, one request at a time.
InitErrors ==
    InitWith([p \in Products |-> MaxStock], [j \in 1..Len(Layout) |-> 0], {}, <<>>)

NextErrors == NextError("r1") \/ ErrorHandled("r1")

SpecErrors == InitErrors /\ [][NextErrors]_vars

\* Checkouts served one at a time, from carts of every shape.
NextSeqCheckout == Checkout("r1")

SpecSeqCheckout == InitCarts /\ [][NextSeqCheckout]_vars

\* The order lifecycle, requests served one at a time.
NextLifecycle ==
    \/ Cancel("r1")
    \/ UpdateOrderStatus("r1")
    \/ UpdatePaymentStatus("r1")

SpecLifecycle == InitOrders /\ [][NextLifecycle]_vars

\* Checkouts and cancellations, two requests in flight.
NextRace == \E r \in Req : Checkout(r) \/ Cancel(r) \/ TxDeadlock(r)

SpecRace == InitFits /\ [][NextRace]_vars

\* Checkouts and cancellations, two requests in flight, an order already open.
SpecOrderRace == InitTx /\ [][NextRace]_vars

\* cancelOrder and updateOrderStatus, two requests in flight.
NextCancelStatus == \E r \in Req : Cancel(r) \/ UpdateOrderStatus(r)

SpecCancelStatus == InitTx /\ [][NextCancelStatus]_vars

\* A checkout in flight together with a request that changes a cart.
NextCartCheckout ==
    \/ Checkout("r1")
    \/ AddToCart("r2")
    \/ UpdateCartItem("r2")
    \/ RemoveFromCart("r2")

SpecCartCheckout == InitTx /\ [][NextCartCheckout]_vars

\* Checkouts and cancellations served one at a time.
NextRoundTrip ==
    \/ Free("r2") /\ Checkout("r1")
    \/ Free("r1") /\ Cancel("r2")

SpecRoundTrip == InitCarts /\ [][NextRoundTrip]_vars

\* Two requests in flight: checkout, cancel and what makes their statements fail.
NextTx ==
    \/ \E r \in Req : Checkout(r) \/ Cancel(r) \/ RemoveFromCart(r) \/ TxDeadlock(r)
    \/ \E p \in Products : DeleteProduct(p)

SpecTx == InitTx /\ [][NextTx]_vars

\* The order operations, removeFromCart and the catalog, two requests in flight.
Next ==
    \/ \E r \in Req : \/ Checkout(r)
                     \/ Cancel(r)
                     \/ UpdateOrderStatus(r)
                     \/ UpdatePaymentStatus(r)
                     \/ RemoveFromCart(r)
                     \/ TxDeadlock(r)
    \/ Catalog

Spec == Init /\ [][Next]_vars

\* getCart and addToCart, two requests in flight.
InitCartRace ==
    \E q \in [1..Len(Layout) -> 0..1], cs \in SUBSET Users :
        InitWith([p \in Products |-> MaxStock], q, cs, <<>>)

NextCartRace == \E r \in Req : GetCart(r) \/ AddToCart(r)

SpecCartRace == InitCartRace /\ [][NextCartRace]_vars

\* addToCart served one request at a time, from carts of every shape.
NextSeqAdd == AddToCart("r1")

SpecSeqAdd == InitCarts /\ [][NextSeqAdd]_vars

\* updateCartItem and removeFromCart served one request at a time.
NextSeqItems == UpdateCartItem("r1") \/ RemoveFromCart("r1")

SpecSeqItems == InitCarts /\ [][NextSeqItems]_vars

\* Carts of every shape, full stock, and no order or one open order.
InitClear ==
    \E q \in [1..Len(Layout) -> 0..MaxQty], cs \in SUBSET Users,
       os \in {<<>>, <<OpenOrder>>} :
        InitWith([p \in Products |-> MaxStock], q, cs, os)

\* clearCart requests served one after the other.
NextSeqClear ==
    \/ Free("r2") /\ ClearCart("r1")
    \/ Free("r1") /\ ClearCart("r2")

SpecSeqClear == InitClear /\ [][NextSeqClear]_vars

\* deleteCategory, two requests in flight, and deleteProduct.
NextCategory ==
    \/ \E r \in Req : DeleteCategory(r)
    \/ \E p \in Products : DeleteProduct(p)

SpecCategory == InitTx /\ [][NextCategory]_vars

\* Requests through the cart router and the order router, one at a time.
InitRouted ==
    \E cs \in {{}, {"u1"}}, os \in {<<>>, <<OpenOrder>>} :
        InitWith([p \in Products |-> MaxStock],
                 [j \in 1..Len(Layout) |-> IF Layout[j][1] \in cs THEN 1 ELSE 0], cs, os)

NextRouted ==
    \/ Arrive("r1")
    \/ Authenticate("r1")
    \/ Authorize("r1")
    \/ Controllers("r1")

SpecRouted == InitRouted /\ [][NextRouted]_vars

\* Checkouts only, two requests in flight.
NextCheckouts == \E r \in Req : Checkout(r) \/ TxDeadlock(r)

SpecCheckouts == InitFits /\ [][NextCheckouts]_vars

\* ------------------------------------------------------------------ properties
RECURSIVE RowsQty(_, _)
\* Sum, over the CartItem rows S of the store, of the quantities that name p.
RowsQty(S, p) ==
    IF S = {} THEN 0
    ELSE LET i == CHOOSE x \in S : TRUE
         IN (IF cartItems[i].productId = p THEN cartItems[i].quantity ELSE 0)
                + RowsQty(S \ {i}, p)

RECURSIVE RowsTotal(_)
\* Sum, over the CartItem rows S of the store, of quantity x the product's price.
RowsTotal(S) ==
    IF S = {} THEN 0
    ELSE LET i == CHOOSE x \in S : TRUE
         IN cartItems[i].quantity * price[cartItems[i].productId] + RowsTotal(S \ {i})

\* Every row of u's cart fits the stock of its product.
CartFits(u) == \A i \in ItemsOf(u) : cartItems[i].quantity <= stock[cartItems[i].productId]

\* Request r takes a step that ends its handler.
Ends(r) == pc[r] # "done" /\ pc'[r] = "done"

\* C1: every Product's stock is >= 0 in every reachable state.
StockNonNegative == \A p \in Products : stock[p] >= 0

\* The checkout r ran on a cart holding one row, one unit of p: the rows it
\* ordered, or the rows a failed checkout left in the cart.
HeldOneOf(r, p) ==
    IF res[r] = 201
    THEN Len(snap[r]) = 1 /\ snap[r][1].productId = p /\ snap[r][1].quantity = 1
    ELSE /\ Cardinality(ItemsOf(usr[r])) = 1
         /\ \A i \in ItemsOf(usr[r]) :
               cartItems[i].productId = p /\ cartItems[i].quantity = 1

\* C2: two checkouts of two users, each of a cart holding one unit of the same
\* product whose stock is 1: exactly one succeeds (201) and the other fails
\* with the insufficient-stock error (400).
OneCheckoutWins ==
    \A p \in Products :
        (/\ stock0[p] = 1
         /\ \A r \in Req : op[r] = "createOrder" /\ pc[r] = "done" /\ HeldOneOf(r, p)
         /\ usr["r1"] # usr["r2"])
        => \E r \in Req :
              /\ res[r] = 201
              /\ \A x \in Req \ {r} : res[x] = 400 /\ msg[x] = "InsufficientStock"

\* C3: a checkout of a cart with at least one row whose every row fits the
\* stock, served with no other request, succeeds: one new order of the user
\* with total = sum of quantity x price, every stock lower by the ordered
\* quantity, no row left in the cart, the cart row kept.
CheckoutPostcondition ==
    [][LET r == "r1"
           u == usr[r]
       IN /\ (pc[r] = "co_find" /\ carts[u] > 0 /\ ItemsOf(u) # {} /\ CartFits(u))
                => pc'[r] = "co_create"
          /\ (pc[r] \in {"co_create", "co_stock", "co_clear"}) => pc'[r] # "done"
          /\ (pc[r] = "co_commit" /\ Ends(r))
                => /\ res'[r] = 201
                   /\ Len(orders') = Len(orders) + 1
                   /\ \A o \in 1..Len(orders) : orders'[o] = orders[o]
                   /\ orders'[Len(orders')].userId = u
                   /\ orders'[Len(orders')].total = RowsTotal(ItemsOf(u))
                   /\ \A p \in Products : stock'[p] = stock[p] - RowsQty(ItemsOf(u), p)
                   /\ \A i \in DOMAIN cartItems' : cartItems'[i].cart # u
                   /\ \A i \in DOMAIN cartItems \ ItemsOf(u) :
                         i \in DOMAIN cartItems' /\ cartItems'[i] = cartItems[i]
                   /\ carts'[u] > 0
                   /\ price' = price
      ]_vars

\* A checkout of a two-row cart has succeeded.
CheckoutSucceeded ==
    /\ pc["r1"] = "done" /\ op["r1"] = "createOrder" /\ res["r1"] = 201
    /\ Len(snap["r1"]) = 2
    /\ snap["r1"][2].quantity = MaxQty
    /\ ItemsOf(usr["r1"]) = {}
    /\ Len(orders) >= 1

\* A row of u's cart asks for more than the stock of its product.
Offending(u) == \E i \in ItemsOf(u) : cartItems[i].quantity > stock[cartItems[i].productId]

\* C4: a checkout of a cart with a row that exceeds the stock fails with the
\* insufficient-stock error (400) and changes no stock, cart item or order,
\* also when the offending row is not the first of the cart.
InsufficientStockRejected ==
    [][\A r \in Req :
          (pc[r] = "co_find" /\ pc'[r] # "co_find" /\ Offending(usr[r]))
             => /\ pc'[r] = "done"
                /\ res'[r] = 400
                /\ msg'[r] = "InsufficientStock"
                /\ UNCHANGED db
      ]_vars

\* A checkout was rejected for the second row of the cart, the first one fitting.
RejectedForSecondRow ==
    \E r \in Req :
        /\ pc[r] = "done" /\ op[r] = "createOrder"
        /\ res[r] = 400 /\ msg[r] = "InsufficientStock"
        /\ LET s == CartSnapshot(usr[r])
           IN /\ Len(s) = 2
              /\ s[1].quantity <= s[1].stock
              /\ s[2].quantity > s[2].stock
              /\ orders = <<>>

\* Request r takes a step of its own.
Steps(r) == <<pc[r], tx[r]>> # <<pc'[r], tx'[r]>>

\* C5: a checkout or cancel changes no row at any step but its commit, in
\* particular none when it fails, also after statements of its transaction
\* ran; the commit applies all its writes in one step.
TransactionsAtomic ==
    [][\A r \in Req :
          /\ (/\ op'[r] \in {"createOrder", "cancelOrder"}
              /\ Steps(r)
              /\ ~(pc'[r] = "done" /\ res'[r] \in {200, 201}))
                => UNCHANGED db
          /\ (op[r] = "createOrder" /\ Ends(r) /\ res'[r] = 201)
                => /\ Len(orders') = Len(orders) + 1
                   /\ Len(orders'[Len(orders')].items) = Len(snap[r])
                   /\ \A p \in Products :
                         stock'[p] = stock[p] - SumQty(snap[r], Len(snap[r]), p)
                   /\ DOMAIN cartItems' = DOMAIN cartItems \ tx[r].del
          /\ (op[r] = "cancelOrder" /\ Ends(r) /\ res'[r] = 200)
                => /\ orders'[arg[r].orderId].status = "CANCELLED"
                   /\ \A p \in Products :
                         stock'[p] = stock[p] + SumQty(snap[r], Len(snap[r]), p)
      ]_vars

\* A checkout was rolled back by the database after a stock statement of its
\* transaction had run.
FailedInTransaction ==
    \E r \in Req :
        /\ pc[r] = "done" /\ op[r] = "createOrder"
        /\ res[r] = 500 /\ msg[r] = "DatabaseError"
        /\ tx[r].i >= 1

RECURSIVE ItemsQty(_, _)
\* Sum of the quantities of the order items its that name product p.
ItemsQty(its, p) ==
    IF its = <<>> THEN 0
    ELSE (IF Head(its).productId = p THEN Head(its).quantity ELSE 0)
            + ItemsQty(Tail(its), p)

\* C6: cancelOrder by the owner of a PENDING or PROCESSING order succeeds, sets
\* the status CANCELLED, adds every order item's quantity to the stock of its
\* product, and changes no other stock and no other order.
CancelPostcondition ==
    [][LET r == "r1"
           o == arg[r].orderId
       IN /\ (/\ pc[r] = "ca_find"
              /\ o \in 1..Len(orders)
              /\ orders[o].userId = usr[r]
              /\ orders[o].status \in {"PENDING", "PROCESSING"})
                => pc'[r] = "ca_status"
          /\ (pc[r] \in {"ca_status", "ca_stock"}) => pc'[r] # "done"
          /\ (pc[r] = "ca_commit" /\ Ends(r))
                => /\ res'[r] = 200
                   /\ orders' = [orders EXCEPT ![o].status = "CANCELLED"]
                   /\ \A p \in Products :
                         stock'[p] = stock[p] + ItemsQty(orders[o].items, p)
                   /\ UNCHANGED <<categories, products, price, carts, cartItems>>
      ]_vars

\* An order of two items was cancelled by its owner, next to another order.
CancelRestored ==
    /\ pc["r1"] = "done" /\ op["r1"] = "cancelOrder" /\ res["r1"] = 200
    /\ Len(orders) = 2
    /\ orders[1].status = "CANCELLED" /\ orders[2].status = "PROCESSING"
    /\ Len(orders[1].items) = 2
    /\ stock["p2"] = stock0["p2"] + MaxQty

\* C7: cancelOrder on a SHIPPED, DELIVERED or CANCELLED order is rejected with
\* an error and changes neither the order's status nor any stock.
ClosedOrderNotCancelled ==
    [][\A r \in Req :
          LET o == arg[r].orderId
          IN (/\ pc[r] = "ca_find" /\ pc'[r] # "ca_find"
              /\ o \in 1..Len(orders)
              /\ orders[o].status \in {"SHIPPED", "DELIVERED", "CANCELLED"})
                => /\ pc'[r] = "done"
                   /\ res'[r] = 400
                   /\ UNCHANGED db
      ]_vars

\* The owner of a DELIVERED order asked to cancel it and was refused.
CancelRefusedAfterDelivery ==
    \E r \in Req :
        /\ pc[r] = "done" /\ op[r] = "cancelOrder"
        /\ res[r] = 400 /\ msg[r] = "AlreadyShipped"
        /\ orders[arg[r].orderId].status = "DELIVERED"
        /\ orders[arg[r].orderId].userId = usr[r]

\* C8: cancelOrder by a user who is not the order's owner, of whatever role,
\* fails with Forbidden (403) and changes neither the order nor any stock.
NonOwnerForbidden ==
    [][\A r \in Req :
          LET o == arg[r].orderId
          IN (/\ pc[r] = "ca_find" /\ pc'[r] # "ca_find"
              /\ o \in 1..Len(orders)
              /\ orders[o].userId # usr[r])
                => /\ pc'[r] = "done"
                   /\ res'[r] = 403
                   /\ UNCHANGED db
      ]_vars

\* C9: an order item's price is the product's price as the checkout read it,
\* and no later step changes it.
OrderItemPriceFrozen ==
    [][/\ \A o \in 1..Len(orders) :
             /\ o <= Len(orders')
             /\ orders'[o].items = orders[o].items
       /\ \A r \in Req :
             (op[r] = "createOrder" /\ Ends(r) /\ res'[r] = 201)
                => \A k \in 1..Len(snap[r]) :
                      orders'[Len(orders')].items[k].price = snap[r][k].price
      ]_vars

\* A checkout has made an order, the product's price was changed since, and
\* the order item keeps the price the checkout read.
PriceChangedAfterOrder ==
    \E r \in Req :
        /\ pc[r] = "done" /\ op[r] = "createOrder" /\ res[r] = 201
        /\ \E k \in 1..Len(snap[r]) :
              /\ orders[Len(orders)].items[k].price = snap[r][k].price
              /\ price[snap[r][k].productId] # snap[r][k].price

\* What an order keeps for life.
Frozen(o) ==
    <<o.userId, o.total, o.shippingAddress, o.paymentMethod, o.items>>

\* C10: an order appears only when a checkout commits, is never deleted, and
\* only its status and paymentStatus are ever written.
OrdersAppendOnly ==
    [][/\ Len(orders') >= Len(orders)
       /\ \A o \in 1..Len(orders) : Frozen(orders'[o]) = Frozen(orders[o])
       /\ Len(orders') > Len(orders)
             => /\ Len(orders') = Len(orders) + 1
                /\ \E r \in Req :
                      op[r] = "createOrder" /\ pc[r] = "co_commit" /\ Ends(r) /\ res'[r] = 201
      ]_vars

\* An order made by a checkout was shipped and paid.
OrderShippedAndPaid ==
    \E o \in 1..Len(orders) :
        /\ orders[o].status = "SHIPPED"
        /\ orders[o].paymentStatus = "PAID"

\* C11: every user has at most one Cart row in every state, and exactly one
\* once a getCart or addToCart of that user has succeeded, also when two
\* requests of the user that both found no cart run together.
OneCartPerUser ==
    [][/\ \A u \in Users : carts[u] <= 1 /\ carts'[u] <= 1
       /\ \A r \in Req :
             (/\ op[r] \in {"getCart", "addToCart"}
              /\ Ends(r)
              /\ res'[r] \in {200, 201})
                => carts'[usr[r]] = 1
      ]_vars

\* Two requests of one user both found no cart: one created it and succeeded,
\* the store refused the other's row.
CartCreatedOnce ==
    \E r \in Req : \E r2 \in Req \ {r} :
        /\ usr[r] = usr[r2]
        /\ pc[r] = "done" /\ msg[r] = "UniqueViolation"
        /\ pc[r2] = "done" /\ res[r2] \in {200, 201}
        /\ carts[usr[r]] = 1

\* C12: there is at most one CartItem row for each (cart, product) pair in
\* every reachable state, under any interleaving of addToCart requests.
OneRowPerProduct ==
    \A u \in Users, p \in Products : Cardinality(RowsOf(u, p)) <= 1

\* C13: addToCart with no concurrent request. Product in the cart with
\* quantity e: succeeds exactly when e + q <= stock and sets the row to e + q.
\* Product not in the cart: succeeds exactly when q <= stock and inserts one
\* row of quantity q. A failure reports insufficient stock and leaves the
\* cart items unchanged. No step changes any stock.
AddToCartPostcondition ==
    [][LET r == "r1"
           u == usr[r]
           p == arg[r].productId
           q == arg[r].quantity
           rows == RowsOf(u, p)
       IN /\ op'[r] = "addToCart" => stock' = stock
          /\ (op[r] = "addToCart" /\ Ends(r))
                => IF rows # {}
                   THEN \E i \in rows :
                          IF cartItems[i].quantity + q <= stock[p]
                          THEN /\ res'[r] = 201
                               /\ cartItems' =
                                    [cartItems EXCEPT ![i].quantity = cartItems[i].quantity + q]
                          ELSE /\ res'[r] = 400 /\ msg'[r] = "InsufficientStock"
                               /\ cartItems' = cartItems
                   ELSE IF q <= stock[p]
                   THEN /\ res'[r] = 201
                        /\ \E i \in DOMAIN cartItems' \ DOMAIN cartItems :
                              /\ DOMAIN cartItems' = DOMAIN cartItems \cup {i}
                              /\ cartItems'[i] = [cart |-> u, productId |-> p, quantity |-> q]
                        /\ \A i \in DOMAIN cartItems : cartItems'[i] = cartItems[i]
                   ELSE /\ res'[r] = 400 /\ msg'[r] = "InsufficientStock"
                        /\ cartItems' = cartItems
      ]_vars

\* One unit was added to a row that held one: the row holds two.
AddedToExistingRow ==
    /\ pc["r1"] = "done" /\ op["r1"] = "addToCart" /\ res["r1"] = 201
    /\ arg["r1"].quantity = 1
    /\ snap["r1"][1].id \in DOMAIN cartItems
    /\ cartItems[snap["r1"][1].id].quantity = 2
    /\ stock[arg["r1"].productId] = stock0[arg["r1"].productId]

\* C14: updateCartItem and removeFromCart on a cart item of another user's
\* cart fail with Forbidden (403) and leave every cart item unchanged.
CartItemOwnerForbidden ==
    [][\A r \in Req :
          LET i == arg[r].itemId
          IN (/\ pc[r] \in {"uc_find", "rm_find"} /\ pc'[r] # pc[r]
              /\ i \in DOMAIN cartItems
              /\ cartItems[i].cart # usr[r])
                => /\ pc'[r] = "done"
                   /\ res'[r] = 403
                   /\ cartItems' = cartItems
      ]_vars

\* The CartItem rows of user u in the next state.
ItemsOfNext(u) == {i \in DOMAIN cartItems' : cartItems'[i].cart = u}

\* C15: clearCart run again for the same user right after a clearCart changes
\* nothing in the store and ends as the first did; after a clearCart the
\* user's cart has no items, and no step of it changes another user's cart
\* items, a stock or an order.
ClearCartIdempotent ==
    [][\A r \in Req :
          /\ (op'[r] = "clearCart" /\ Steps(r))
                => /\ UNCHANGED <<categories, products, stock, price, carts, orders>>
                   /\ \A i \in DOMAIN cartItems :
                         cartItems[i].cart # usr'[r]
                            => i \in DOMAIN cartItems' /\ cartItems'[i] = cartItems[i]
          /\ (op[r] = "clearCart" /\ Ends(r)) => ItemsOfNext(usr[r]) = {}
          /\ \A r2 \in Req \ {r} :
                (/\ op[r] = "clearCart" /\ pc[r] # "done" /\ Steps(r)
                 /\ op[r2] = "clearCart" /\ pc[r2] = "done" /\ usr[r2] = usr[r])
                   => /\ UNCHANGED db
                      /\ Ends(r) => res'[r] = res[r2] /\ msg'[r] = msg[r2]
      ]_vars

\* clearCart ran twice for a user whose cart existed; the other user's cart
\* still holds its items and the order is still there.
ClearedTwice ==
    /\ pc["r1"] = "done" /\ pc["r2"] = "done"
    /\ op["r1"] = "clearCart" /\ op["r2"] = "clearCart"
    /\ usr["r1"] = usr["r2"]
    /\ res["r1"] = 200 /\ res["r2"] = 200
    /\ ItemsOf(usr["r1"]) = {}
    /\ cartItems # << >>
    /\ Len(orders) = 1

\* C16: deleteCategory on a category that a product references fails with
\* Conflict (409) and deletes nothing; a category is deleted only when no
\* product references it.
CategoryConflict ==
    [][/\ \A r \in Req :
             (/\ pc[r] = "dc_find" /\ pc'[r] # "dc_find"
              /\ arg[r].categoryId \in categories
              /\ ProductsOf(arg[r].categoryId) # {})
                => /\ pc'[r] = "done"
                   /\ res'[r] = 409
                   /\ categories' = categories
       /\ \A c \in categories \ categories' : ProductsOf(c) = {}
      ]_vars

\* C17: on every cart route and order route the controller runs only for a
\* request whose token authenticate accepted, as the user of the token; a
\* missing or invalid token is answered 401 with the store unchanged; on the
\* admin order routes (stats, all, status, payment) the controller runs only
\* for role ADMIN and a non-admin is answered 403 with the store unchanged.
RoutesGuarded ==
    [][\A r \in Req :
          /\ (pc[r] = "authenticate" /\ Steps(r) /\ arg[r].token \notin Users)
                => pc'[r] = "done" /\ res'[r] = 401 /\ UNCHANGED db
          /\ (/\ pc[r] \in {"authenticate", "authorize"} /\ Steps(r)
              /\ arg[r].token \in Users
              /\ op[r] \in {"getOrderStats", "getAllOrders",
                            "updateOrderStatus", "updatePaymentStatus"}
              /\ Role[arg[r].token] # "ADMIN")
                => \/ pc'[r] = "authorize" /\ UNCHANGED db
                   \/ pc'[r] = "done" /\ res'[r] = 403 /\ UNCHANGED db
          /\ (pc'[r] \notin {"idle", "done", "authenticate", "authorize"})
                => /\ arg'[r].token \in Users
                   /\ usr'[r] = arg'[r].token
                   /\ op'[r] \in {"getOrderStats", "getAllOrders",
                                  "updateOrderStatus", "updatePaymentStatus"}
                         => Role[usr'[r]] = "ADMIN"
          /\ (pc[r] \in {"idle", "done", "authenticate", "authorize"} /\ Steps(r))
                => UNCHANGED db
      ]_vars

\* A user who is no admin asked to set an order's status and was answered
\* 403; the order is still PENDING.
NonAdminRefused ==
    /\ pc["r1"] = "done" /\ op["r1"] = "updateOrderStatus"
    /\ res["r1"] = 403
    /\ arg["r1"].token = "u1"
    /\ Len(orders) = 1 /\ orders[1].status = "PENDING"

RECURSIVE OrderedQty(_, _)
\* Sum of the quantities of product p in the items of the first n orders.
OrderedQty(n, p) ==
    IF n = 0 THEN 0 ELSE OrderedQty(n - 1, p) + ItemsQty(orders[n].items, p)

\* C18: whatever the interleaving of the checkouts, every product's stock is
\* its initial stock minus the quantities of the orders committed: no
\* decrement is lost or applied twice.
NoLostDecrement ==
    \A p \in Products : stock[p] = stock0[p] - OrderedQty(Len(orders), p)

\* Two checkouts that ran together ordered the same product and both committed.
BothCheckoutsCommitted ==
    /\ \A r \in Req : pc[r] = "done" /\ op[r] = "createOrder" /\ res[r] = 201
    /\ Len(orders) = 2
    /\ \E p \in Products :
          /\ ItemsQty(orders[1].items, p) > 0
          /\ ItemsQty(orders[2].items, p) > 0
          /\ \A r \in Req : \E k \in 1..Len(snap[r]) :
                snap[r][k].productId = p /\ snap[r][k].stock = stock0[p]

\* C19: the order a checkout creates has status PENDING and paymentStatus
\* PENDING and one order item per cart item the checkout read, in their
\* order, each with that cart item's productId and quantity and the product's
\* price as read.
OrderMirrorsCart ==
    [][\A r \in Req :
          /\ (pc[r] = "co_find" /\ pc'[r] = "co_create")
                => /\ Len(snap'[r]) = Cardinality(ItemsOf(usr[r]))
                   /\ \A k \in 1..Len(snap'[r]) :
                         LET i == snap'[r][k].id
                         IN /\ i \in ItemsOf(usr[r])
                            /\ snap'[r][k].productId = cartItems[i].productId
                            /\ snap'[r][k].quantity = cartItems[i].quantity
                            /\ snap'[r][k].price = price[cartItems[i].productId]
                   /\ \A k \in 1..Len(snap'[r]), j \in 1..Len(snap'[r]) :
                         snap'[r][k].id = snap'[r][j].id => k = j
          /\ (op[r] = "createOrder" /\ Ends(r) /\ res'[r] = 201)
                => /\ Len(orders') = Len(orders) + 1
                   /\ LET o == orders'[Len(orders')]
                      IN /\ o.status = "PENDING"
                         /\ o.paymentStatus = "PENDING"
                         /\ o.userId = usr[r]
                         /\ Len(o.items) = Len(snap[r])
                         /\ \A k \in 1..Len(snap[r]) :
                               /\ o.items[k].productId = snap[r][k].productId
                               /\ o.items[k].quantity = snap[r][k].quantity
                               /\ o.items[k].price = snap[r][k].price
      ]_vars

\* A checkout of a cart of two rows has made a PENDING order of two items.
OrderOfTwoItems ==
    \E r \in Req :
        /\ pc[r] = "done" /\ op[r] = "createOrder" /\ res[r] = 201
        /\ Len(snap[r]) = 2
        /\ \E o \in 1..Len(orders) :
              /\ orders[o].userId = usr[r]
              /\ orders[o].status = "PENDING" /\ orders[o].paymentStatus = "PENDING"
              /\ Len(orders[o].items) = 2
              /\ orders[o].items[2].productId = snap[r][2].productId

\* C20: a checkout by a user without a cart, or whose cart has no items,
\* fails with a 400 validation error, creates no order and changes no stock.
EmptyCartRejected ==
    [][\A r \in Req :
          (/\ pc[r] = "co_find" /\ pc'[r] # "co_find"
           /\ (carts[usr[r]] = 0 \/ ItemsOf(usr[r]) = {}))
             => /\ pc'[r] = "done"
                /\ res'[r] = 400
                /\ orders' = orders
                /\ stock' = stock
      ]_vars

\* A user who has a cart without items asked to check out and was refused.
EmptyCartRefused ==
    \E r \in Req :
        /\ pc[r] = "done" /\ op[r] = "createOrder" /\ res[r] = 400
        /\ carts[usr[r]] = 1 /\ ItemsOf(usr[r]) = {}
        /\ orders = <<>>
        /\ stock = stock0

\* C21: updateOrderStatus on an existing order succeeds whatever the current
\* and the new status are and changes only that order's status;
\* updatePaymentStatus changes only that order's paymentStatus; neither
\* changes a stock, an order item or a total; on an order that does not exist
\* both end with NotFound (404) and change nothing.
StatusUpdatesFramed ==
    [][\A r \in Req :
          LET o == arg[r].orderId
          IN /\ (pc[r] \in {"us_find", "up_find"} /\ pc'[r] # pc[r])
                   => /\ UNCHANGED db
                      /\ IF o \in 1..Len(orders)
                         THEN pc'[r] \in {"us_update", "up_update"}
                         ELSE pc'[r] = "done" /\ res'[r] = 404
             /\ (pc[r] = "us_update" /\ pc'[r] # pc[r])
                   => /\ pc'[r] = "done" /\ res'[r] = 200
                      /\ orders' = [orders EXCEPT ![o].status = arg[r].status]
                      /\ UNCHANGED <<categories, products, stock, price, carts,
                                     cartItems, nextItemId>>
             /\ (pc[r] = "up_update" /\ pc'[r] # pc[r])
                   => /\ pc'[r] = "done" /\ res'[r] = 200
                      /\ orders' = [orders EXCEPT ![o].paymentStatus = arg[r].status]
                      /\ UNCHANGED <<categories, products, stock, price, carts,
                                     cartItems, nextItemId>>
      ]_vars

\* An order cancelled by its owner, its quantities back in stock, was moved
\* out of CANCELLED by updateOrderStatus; the stock stayed as the cancel left it.
StatusMovedOutOfCancelled ==
    /\ pc["r1"] = "done" /\ op["r1"] = "updateOrderStatus" /\ res["r1"] = 200
    /\ arg["r1"].orderId = 1 /\ arg["r1"].status = "SHIPPED"
    /\ orders[1].status = "SHIPPED"
    /\ \A p \in Products : stock[p] = stock0[p] + ItemsQty(orders[1].items, p)
    /\ stock # stock0

\* C22: every write to a product's stock is a relative adjustment, the
\* decrement of a committing checkout or the increment of a committing
\* cancel; no operation writes an absolute value over the stock.
StockWritesRelative ==
    [][\A p \in Products :
          stock'[p] # stock[p]
             => \E r \in Req :
                   \/ /\ pc[r] = "co_commit" /\ pc'[r] = "done"
                      /\ stock'[p] = stock[p] - SumQty(snap[r], Len(snap[r]), p)
                   \/ /\ pc[r] = "ca_commit" /\ pc'[r] = "done"
                      /\ stock'[p] = stock[p] + SumQty(snap[r], Len(snap[r]), p)
      ]_vars

\* C23: the error handler answers every error with a response whose HTTP
\* status is the body's statusCode and whose body has status "error": an
\* AppError keeps its statusCode; a store error (code starting with P) gives
\* 400 for P2002, P2003 and P2014, 404 for P2025 and 500 for any other code; a
\* JsonWebTokenError or TokenExpiredError gives 401; any other error gives its
\* own statusCode, or 500 when it has none.
ErrorEnvelope ==
    \A r \in Req :
       (pc[r] = "done" /\ op[r] = "next(err)")
          => LET e == err[r]
                 store == ~e.isAppError /\ e.code # <<>> /\ e.code[1] = "P"
                 jwt == /\ ~e.isAppError /\ ~store
                        /\ e.name \in {"JsonWebTokenError", "TokenExpiredError"}
             IN /\ res[r] = body[r].statusCode
                /\ body[r].status = "error"
                /\ e.isAppError => res[r] = e.statusCode
                /\ (store /\ e.code[2] \in {"2002", "2003", "2014"}) => res[r] = 400
                /\ (store /\ e.code[2] = "2025") => res[r] = 404
                /\ (store /\ e.code[2] \notin {"2002", "2003", "2014", "2025"})
                      => res[r] = 500
                /\ jwt => res[r] = 401
                /\ (~e.isAppError /\ ~store /\ ~jwt)
                      => res[r] = (IF e.statusCode = 0 THEN 500 ELSE e.statusCode)

\* A store error P2025 that carries no statusCode was answered with 404 and
\* the envelope of a record that was not found.
RecordNotFoundAnswered ==
    /\ pc["r1"] = "done" /\ op["r1"] = "next(err)"
    /\ ~err["r1"].isAppError /\ err["r1"].code = <<"P", "2025">>
    /\ err["r1"].statusCode = 0
    /\ res["r1"] = 404
    /\ body["r1"] = [status |-> "error", statusCode |-> 404, message |-> "RecordNotFound"]

\* The quantity of product p in the orders os that are not CANCELLED.
OpenQty(os, p) ==
    LET RECURSIVE Sum(_)
        Sum(n) == IF n = 0 THEN 0
                  ELSE Sum(n - 1) + (IF os[n].status = "CANCELLED" THEN 0
                                     ELSE ItemsQty(os[n].items, p))
    IN Sum(Len(os))

\* C24: with only checkout and cancelOrder at work, under any interleaving,
\* the stock of every product plus the quantity of it in the orders that are
\* not CANCELLED never changes: an order's quantities return to stock at most
\* once, also when two cancelOrder requests for it run together.
StockPlusOpenOrdersConstant ==
    [][\A p \in Products :
          stock'[p] + OpenQty(orders', p) = stock[p] + OpenQty(orders, p)]_vars

\* C25: over cancelOrder and updateOrderStatus requests served one after the
\* other, no step of either changes the stock of a product plus the quantity
\* of it in the orders that are not CANCELLED: an order set to CANCELLED has
\* its quantities back in stock once, and one moved out of CANCELLED and
\* cancelled again does not return them a second time.
CancelledReturnsOnce ==
    [][\A r \in Req :
          (op'[r] \in {"cancelOrder", "updateOrderStatus"} /\ Steps(r))
             => \A p \in Products :
                   stock'[p] + OpenQty(orders', p) = stock[p] + OpenQty(orders, p)
      ]_vars

\* C26: however a cancelOrder and an updateOrderStatus on the same order
\* interleave, the writes of a cancel are never applied to an order whose
\* stored status is SHIPPED or DELIVERED at that moment: the status check of
\* cancelOrder and its writes act as one step.
CancelCheckAtomic ==
    [][\A r \in Req :
          (pc[r] = "ca_commit" /\ pc'[r] = "done" /\ res'[r] = 200)
             => orders[arg[r].orderId].status \notin {"SHIPPED", "DELIVERED"}
      ]_vars

\* C27: when a user sends two checkouts of one cart at the same time and
\* nothing else changes the cart, at most one order is created from the
\* cart's items; every order decrements the stock by its quantities
\* (NoLostDecrement), so the cart's quantities leave the stock at most once.
OneOrderPerCart ==
    \A u \in Users :
       Cardinality({o \in 1..Len(orders) : orders[o].userId = u}) <= 1

\* C28: however a checkout interleaves with addToCart, updateCartItem and
\* removeFromCart requests of the same user, the cart items the checkout
\* deletes are the rows its order items were made from, with the same
\* quantities: no row is deleted without being ordered and no quantity is
\* ordered that was not in the cart when it was cleared.
OrderIsWhatCheckoutDeletes ==
    [][\A r \in Req :
          (pc[r] = "co_commit" /\ pc'[r] = "done" /\ res'[r] = 201)
             => /\ tx[r].del = {snap[r][k].id : k \in 1..Len(snap[r])}
                /\ \A k \in 1..Len(snap[r]) :
                      /\ cartItems[snap[r][k].id].productId = snap[r][k].productId
                      /\ cartItems[snap[r][k].id].quantity = snap[r][k].quantity
      ]_vars

RECURSIVE ItemsTotal(_)
\* Sum over the order items its of quantity times stored price.
ItemsTotal(its) ==
    IF its = <<>> THEN 0
    ELSE Head(its).quantity * Head(its).price + ItemsTotal(Tail(its))

\* C29: in every state, whatever checkouts, cancellations, status updates and
\* product price updates came before, the total of every order is the sum
\* over its own items of quantity times stored price.
TotalIsSumOfItems ==
    \A o \in 1..Len(orders) : orders[o].total = ItemsTotal(orders[o].items)

\* An order made by a checkout holds two items, and the price of one of its
\* products is no longer the price stored in the item.
TotalKeptAfterRepricing ==
    /\ Len(orders) = 2
    /\ \E r \in Req : pc[r] = "done" /\ op[r] = "createOrder" /\ res[r] = 201
    /\ Len(orders[2].items) = 2
    /\ \E k \in 1..2 : price[orders[2].items[k].productId] # orders[2].items[k].price
    /\ orders[2].total = orders[2].items[1].price + orders[2].items[2].price

\* C30: after a successful checkout followed, with nothing in between, by a
\* successful cancelOrder of the order it created, every product's stock is
\* what it was before the checkout, the cart is still empty and the order is
\* still stored, with status CANCELLED.
CheckoutThenCancelRestores ==
    [][LET o == arg["r2"].orderId
       IN (/\ pc["r1"] = "done" /\ op["r1"] = "createOrder" /\ res["r1"] = 201
           /\ o = Len(orders)
           /\ op["r2"] = "cancelOrder" /\ Ends("r2") /\ res'["r2"] = 200)
             => /\ \A p \in Products :
                      stock'[p] = IF \E k \in 1..Len(snap["r1"]) : snap["r1"][k].productId = p
                                  THEN stock[p] + ItemsQty(orders[o].items, p)
                                  ELSE stock[p]
                /\ \A k \in 1..Len(snap["r1"]) :
                      stock'[snap["r1"][k].productId] = snap["r1"][k].stock
                /\ ItemsOfNext(usr["r1"]) = {}
                /\ Len(orders') = Len(orders)
                /\ orders'[o].status = "CANCELLED"
                /\ orders'[o].items = orders[o].items
      ]_vars

\* A checkout of two units of p1 and one of p2 was cancelled: the stock is the
\* initial stock again, the cart is empty and the order is CANCELLED.
RoundTripDone ==
    /\ pc["r1"] = "done" /\ op["r1"] = "createOrder" /\ res["r1"] = 201
    /\ pc["r2"] = "done" /\ op["r2"] = "cancelOrder" /\ res["r2"] = 200
    /\ Len(orders) = 1 /\ orders[1].status = "CANCELLED"
    /\ ItemsQty(orders[1].items, "p1") = 2 /\ ItemsQty(orders[1].items, "p2") = 1
    /\ stock = stock0
    /\ ItemsOf(usr["r1"]) = {}
====
